---- MODULE Spec2Model ----
(***************************************************************************)
(* Model of the datathon front end's upload page                           *)
(* (src/src/pages/UploadSubmission.tsx): file selection and validation,    *)
(* the asynchronous header check, the multipart upload and its result.     *)
(*                                                                         *)
(* JavaScript strings that the code inspects (file names, file text,       *)
(* column names) are sequences of one-character strings, so that           *)
(* endsWith, split, toLowerCase, includes and join are computed the way    *)
(* the code computes them.  Messages that are only displayed are TLA+      *)
(* strings.                                                                *)
(***************************************************************************)
EXTENDS Integers, Sequences, FiniteSets, Bags, TLC

VARIABLES
    file,                 \* useState<File | null>: NoFile or an index of Files
    isDragging,           \* useState(false)
    isUploading,          \* useState(false)
    uploadProgress,       \* useState(0)
    result,               \* useState<SubmissionResult | null>: <<>> or <<data>>
    csvPreview,           \* useState<string[]>([]): sequence of rows
    submissionsRemaining, \* useState<number | null>: <<>> or <<n>>
    reads,                \* FileReader reads started and not yet loaded
    uploads,              \* POST /upload requests in flight (the file of each)
    requirements,         \* GET /submissions-remaining: "pending" or "settled"
    toasts,               \* toast.* calls made by the most recent handler run
    uncaught,             \* the most recent handler run ended in an uncaught exception
    postCount,            \* POST /upload requests issued so far
    submitCount,          \* handleUpload invocations with a file selected so far
    \* Leaderboard (src/src/pages/Leaderboard.tsx)
    leaderboard,          \* useState<LeaderboardEntry[]>([])
    lbIsLoading,          \* isLoading, useState(true)
    lastUpdated,          \* useState<Date | null>(null): <<>> or <<period>>
    isRefreshing,         \* useState(false)
    lbMounted,            \* the component is mounted
    intervalActive,       \* the setInterval timer exists and is not cleared
    lbInFlight,           \* GET /leaderboard requests in flight, by origin
    lbIssued,             \* GET /leaderboard requests issued so far, by origin
    periods,              \* interval periods (2 minutes each) elapsed so far
    lbToasts,             \* toast.* calls made by the most recent handler run
    \* Dashboard (src/src/pages/Dashboard.tsx)
    scores,               \* useState<Score[]>([])
    stats,                \* useState<UserStats | null>(null): <<>> or <<stats>>
    dashIsLoading,        \* isLoading, useState(true)
    scoresRequest,        \* GET /scores: pending, or how it settled
    remainingRequest,     \* GET /remaining-submissions: pending, or how it settled
    dashSettled,          \* Promise.all has settled and fetchUserData has run on
    dashMounted,          \* the component is mounted
    dashToasts            \* toast.* calls made by the most recent handler run

uploadVars ==
    <<file, isDragging, isUploading, uploadProgress, result, csvPreview,
      submissionsRemaining, reads, uploads, requirements, toasts, uncaught,
      postCount, submitCount>>

leaderboardVars ==
    <<leaderboard, lbIsLoading, lastUpdated, isRefreshing, lbMounted,
      intervalActive, lbInFlight, lbIssued, periods, lbToasts>>

dashboardVars ==
    <<scores, stats, dashIsLoading, scoresRequest, remainingRequest,
      dashSettled, dashMounted, dashToasts>>

vars == <<uploadVars, leaderboardVars, dashboardVars>>

----------------------------------------------------------------------------
(* Bounds of the model.                                                    *)

\* handleUpload invocations explored in one behaviour
MaxUploads == 2

\* FileReader reads that may be outstanding at once
MaxReads == 2

\* Interval periods of the Leaderboard explored in one behaviour
MaxPeriods == 2

\* Manual refreshes of the Leaderboard explored in one behaviour
MaxRefreshes == 2

----------------------------------------------------------------------------
(* String literals of the source, as character sequences.                  *)

Str_dot_csv ==
    <<".", "c", "s", "v">>

Str_walmart_id ==
    <<"w", "a", "l", "m", "a", "r", "t", "_", "i", "d">>

Str_details_brand ==
    <<"d", "e", "t", "a", "i", "l", "s", "_", "b", "r", "a", "n", "d">>

Str_l0_category ==
    <<"l", "0", "_", "c", "a", "t", "e", "g", "o", "r", "y">>

Str_l1_category ==
    <<"l", "1", "_", "c", "a", "t", "e", "g", "o", "r", "y">>

Str_l2_category ==
    <<"l", "2", "_", "c", "a", "t", "e", "g", "o", "r", "y">>

Str_l3_category ==
    <<"l", "3", "_", "c", "a", "t", "e", "g", "o", "r", "y">>

Str_l4_category ==
    <<"l", "4", "_", "c", "a", "t", "e", "g", "o", "r", "y">>

Str_comma_space ==
    <<",", " ">>

Str_tomorrow ==
    <<"t", "o", "m", "o", "r", "r", "o", "w">>

Newline == "\n"

\* const requiredColumns = ['details_brand', 'l0_category', ..., 'l4_category']
requiredColumns ==
    <<Str_details_brand, Str_l0_category, Str_l1_category, Str_l2_category,
      Str_l3_category, Str_l4_category>>

\* 5 * 1024 * 1024
MaxFileSize == 5 * 1024 * 1024

\* text.split('\n').slice(0, 5)
PreviewRows == 5

----------------------------------------------------------------------------
(* The files a user may drop or pick.  name, type and size are the File's  *)
(* properties; text is what FileReader.readAsText delivers.  For the       *)
(* files at the size limit the text lists the leading rows only: the       *)
(* preview and the header check read nothing past the fifth line break.    *)

Name_good ==
    <<"g", "o", "o", "d", ".", "c", "s", "v">>

Text_good ==
    <<"w", "a", "l", "m", "a", "r", "t", "_", "i", "d", ",", "d", "e", "t",
    "a", "i", "l", "s", "_", "B", "r", "a", "n", "d", ",", "L", "0", "_", "c",
    "a", "t", "e", "g", "o", "r", "y", ",", "L", "1", "_", "c", "a", "t", "e",
    "g", "o", "r", "y", ",", "L", "2", "_", "c", "a", "t", "e", "g", "o", "r",
    "y", ",", "L", "3", "_", "c", "a", "t", "e", "g", "o", "r", "y", ",", "L",
    "4", "_", "c", "a", "t", "e", "g", "o", "r", "y", "\n", "1", "\n", "2",
    "\n", "3", "\n", "4", "\n", "5", "\n", "6", "\n">>

Name_nowid ==
    <<"n", "o", "w", "i", "d", ".", "C", "S", "V">>

Text_nowid ==
    <<"i", "d", ",", "d", "e", "t", "a", "i", "l", "s", "_", "b", "r", "a",
    "n", "d", ",", "l", "0", "_", "c", "a", "t", "e", "g", "o", "r", "y",
    "\n", "7", ",", "x", ",", "y">>

Name_exact ==
    <<"e", "x", "a", "c", "t", ".", "c", "s", "v">>

Text_exact ==
    <<"W", "A", "L", "M", "A", "R", "T", "_", "I", "D", ",", "l", "0", "_",
    "c", "a", "t", "e", "g", "o", "r", "y", ",", "l", "2", "_", "c", "a", "t",
    "e", "g", "o", "r", "y", ",", "l", "4", "_", "c", "a", "t", "e", "g", "o",
    "r", "y", "\n", "1", "\n", "2", "\n", "3", "\n", "4", "\n", "5", "\n">>

Name_notes ==
    <<"n", "o", "t", "e", "s", ".", "t", "x", "t">>

Text_notes ==
    <<"w", "a", "l", "m", "a", "r", "t", "_", "i", "d", "\n">>

Name_big ==
    <<"b", "i", "g", ".", "c", "s", "v">>

Name_huge ==
    <<"h", "u", "g", "e", ".", "b", "i", "n">>

Files ==
    <<[name |-> Name_good,  type |-> "",           size |-> Len(Text_good),
       text |-> Text_good],
      [name |-> Name_nowid, type |-> "text/csv",   size |-> Len(Text_nowid),
       text |-> Text_nowid],
      [name |-> Name_exact, type |-> "text/csv",   size |-> MaxFileSize,
       text |-> Text_exact],
      [name |-> Name_notes, type |-> "text/plain", size |-> Len(Text_notes),
       text |-> Text_notes],
      [name |-> Name_big,   type |-> "text/csv",   size |-> MaxFileSize + 1,
       text |-> Text_good],
      [name |-> Name_huge,  type |-> "application/octet-stream",
       size |-> MaxFileSize + 1, text |-> Text_exact]>>

FileIds == 1..Len(Files)

\* file === null
NoFile == 0

----------------------------------------------------------------------------
(* String operations of the JavaScript runtime that the code calls.        *)

Min(a, b) == IF a < b THEN a ELSE b

\* String.prototype.endsWith
EndsWith(s, suffix) ==
    /\ Len(suffix) <= Len(s)
    /\ SubSeq(s, Len(s) - Len(suffix) + 1, Len(s)) = suffix

\* String.prototype.includes
Includes(s, sub) ==
    \E i \in 0..(Len(s) - Len(sub)) : SubSeq(s, i + 1, i + Len(sub)) = sub

\* The capital letters of the characters a text is made of here (Basic
\* Latin and Latin-1 Supplement), and at the same positions their lower-case
\* mappings
UpperCase == <<"A", "B", "C", "D", "E", "F", "G", "H", "I", "J", "K", "L", "M",
               "N", "O", "P", "Q", "R", "S", "T", "U", "V", "W", "X", "Y", "Z",
               "À", "Á", "Â", "Ã", "Ä", "Å", "Æ", "Ç", "È", "É", "Ê", "Ë", "Ì",
               "Í", "Î", "Ï", "Ð", "Ñ", "Ò", "Ó", "Ô", "Õ", "Ö", "Ø", "Ù", "Ú",
               "Û", "Ü", "Ý", "Þ">>

LowerCase == <<"a", "b", "c", "d", "e", "f", "g", "h", "i", "j", "k", "l", "m",
               "n", "o", "p", "q", "r", "s", "t", "u", "v", "w", "x", "y", "z",
               "à", "á", "â", "ã", "ä", "å", "æ", "ç", "è", "é", "ê", "ë", "ì",
               "í", "î", "ï", "ð", "ñ", "ò", "ó", "ô", "õ", "ö", "ø", "ù", "ú",
               "û", "ü", "ý", "þ">>

LowerChar(c) ==
    IF \E i \in 1..Len(UpperCase) : UpperCase[i] = c
    THEN LowerCase[CHOOSE i \in 1..Len(UpperCase) : UpperCase[i] = c]
    ELSE c

\* String.prototype.toLowerCase
ToLowerCase(s) == [i \in 1..Len(s) |-> LowerChar(s[i])]

\* Position of the first occurrence of character c in s, 0 when there is none
IndexOfChar(s, c) ==
    IF \E i \in 1..Len(s) : s[i] = c
    THEN CHOOSE i \in 1..Len(s) : s[i] = c /\ \A j \in 1..(i - 1) : s[j] # c
    ELSE 0

\* String.prototype.split with a one-character separator
RECURSIVE Split(_, _)
Split(s, c) ==
    LET i == IndexOfChar(s, c)
    IN IF i = 0 THEN <<s>>
       ELSE <<SubSeq(s, 1, i - 1)>> \o Split(SubSeq(s, i + 1, Len(s)), c)

\* Array.prototype.slice(0, n)
SliceFirst(a, n) == SubSeq(a, 1, Min(n, Len(a)))

\* Array.prototype.join
RECURSIVE Join(_, _)
Join(a, sep) ==
    IF Len(a) = 0 THEN <<>>
    ELSE IF Len(a) = 1 THEN a[1]
    ELSE a[1] \o sep \o Join(Tail(a), sep)

DigitChars == <<"0", "1", "2", "3", "4", "5", "6", "7", "8", "9">>

\* Decimal rendering of a natural number
RECURSIVE Digits(_)
Digits(n) ==
    IF n < 10 THEN <<DigitChars[n + 1]>>
    ELSE Digits(n \div 10) \o <<DigitChars[(n % 10) + 1]>>

TwoDigits(n) == <<DigitChars[(n \div 10) + 1], DigitChars[(n % 10) + 1]>>

----------------------------------------------------------------------------
(* Notifications (react-hot-toast).  arg is the interpolated part of a     *)
(* template literal, <<>> for a fixed message.                             *)

ToastError(text, arg) == [level |-> "error", text |-> text, arg |-> arg]

ToastSuccess(text) == [level |-> "success", text |-> text, arg |-> <<>>]

MsgOnlyCsv == "Only CSV files are allowed"

MsgTooLarge == "File size exceeds 5MB limit"

MsgNeedWalmartId == "CSV must contain a column named \"walmart_id\""

MsgMissingColumns == "CSV is missing required columns: "

MsgSelectFile == "Please select a file to upload"

MsgUploaded == "File uploaded successfully!"

MsgRateLimit == "Daily upload limit exceeded. Limit resets at "

MsgUploadFailed == "Upload failed. Please check file format and try again."

----------------------------------------------------------------------------
(* validateAndSetFile: the synchronous checks.                             *)

\* !file.name.endsWith('.csv') && file.type !== 'text/csv'
NotCsv(f) == ~EndsWith(Files[f].name, Str_dot_csv) /\ Files[f].type # "text/csv"

\* Mutant: the limit itself is refused (>= for >)
TooLarge_AtLimit(f) == Files[f].size >= MaxFileSize

\* file.size > 5 * 1024 * 1024
TooLarge(f) == Files[f].size > MaxFileSize

\* The file gets past both early returns
Accepted(f) == ~NotCsv(f) /\ ~TooLarge(f)

(* reader.onload: the preview rows and the header check.                   *)

\* text.split('\n').slice(0, 5)
PreviewOf(text) == SliceFirst(Split(text, Newline), PreviewRows)

\* Mutant: the filter keeps the columns that are present
MissingColumns_Inverted(headers) ==
    LET Present(col) == Includes(headers, col)
    IN SelectSeq(requiredColumns, Present)

\* requiredColumns.filter(col => !headers.includes(col))
MissingColumns(headers) ==
    LET Missing(col) == ~Includes(headers, col)
    IN SelectSeq(requiredColumns, Missing)

\* Mutant: the return after the walmart_id error is missing
HeaderToasts_NoReturn(rows) ==
    IF Len(rows) > 0
    THEN LET headers == ToLowerCase(rows[1])
             missingColumns == MissingColumns(headers)
         IN (IF ~Includes(headers, Str_walmart_id)
             THEN <<ToastError(MsgNeedWalmartId, <<>>)>>
             ELSE <<>>)
            \o (IF Len(missingColumns) > 0
                THEN <<ToastError(MsgMissingColumns,
                                  Join(missingColumns, Str_comma_space))>>
                ELSE <<>>)
    ELSE <<>>

\* The toast calls of reader.onload for the given rows
HeaderToasts(rows) ==
    IF Len(rows) > 0
    THEN LET headers == ToLowerCase(rows[1])
         IN IF ~Includes(headers, Str_walmart_id)
            THEN <<ToastError(MsgNeedWalmartId, <<>>)>>
            ELSE LET missingColumns == MissingColumns(headers)
                 IN IF Len(missingColumns) > 0
                    THEN <<ToastError(MsgMissingColumns,
                                      Join(missingColumns, Str_comma_space))>>
                    ELSE <<>>
    ELSE <<>>

----------------------------------------------------------------------------
(* Responses of the scoring backend.  Accuracies are fractions counted in  *)
(* millionths (870000 is 0.87).                                            *)

UploadResponses ==
    { [item_accuracy |-> 870000, hasBrand |-> FALSE, brand_accuracy |-> 0,
       timestamp |-> "2024-01-01T00:00:00Z", submissionsRemaining |-> 3],
      [item_accuracy |-> 999960, hasBrand |-> TRUE, brand_accuracy |-> 512,
       timestamp |-> "2024-01-02T12:30:45Z", submissionsRemaining |-> 0] }

\* What axios rejects with: error.response, error.response.status,
\* error.response.data and the fields of that body.  nextReset is the
\* instant its (non-empty) ISO string names, in seconds since the epoch.
Failure(hasResponse, status, hasData, hasError, error, hasNextReset, nextReset) ==
    [hasResponse |-> hasResponse, status |-> status, hasData |-> hasData,
     hasError |-> hasError, error |-> error,
     hasNextReset |-> hasNextReset, nextReset |-> nextReset]

NetworkFailure == Failure(FALSE, 0, FALSE, FALSE, "", FALSE, 0)

UploadFailures ==
    { NetworkFailure,
      Failure(TRUE, 400, TRUE, TRUE, "Invalid CSV format", FALSE, 0),
      Failure(TRUE, 500, TRUE, FALSE, "", FALSE, 0),
      Failure(TRUE, 500, FALSE, FALSE, "", FALSE, 0),
      Failure(TRUE, 429, TRUE, TRUE, "Daily limit reached", TRUE, 1704067200),
      Failure(TRUE, 429, TRUE, TRUE, "Daily limit reached", FALSE, 0),
      Failure(TRUE, 429, FALSE, FALSE, "", FALSE, 0) }

\* Offsets from UTC, in minutes, of the browser's time zone
TimeZoneOffsets == {0, 330, 0 - 300}

\* Default locales of the runtime: toLocaleTimeString() is called without
\* arguments, so the format of its result is the one of the locale the
\* browser runs in; a 12-hour, a 24-hour and an unpadded 24-hour format
Locales == {"en-US", "en-GB", "ja-JP"}

\* new Date(nextReset).toLocaleTimeString() in a zone offset minutes from
\* UTC and in the given default locale: "12:00:00 AM" (en-US), "00:00:00"
\* (en-GB), "12:00:00 am" (en-IN), "0:00:00" (ja-JP)
LocaleTimeString(epoch, offset, locale) ==
    LET local == (epoch + offset * 60) % 86400
        hour == local \div 3600
        hour12 == IF hour % 12 = 0 THEN 12 ELSE hour % 12
        rest == <<":">> \o TwoDigits((local % 3600) \div 60)
                \o <<":">> \o TwoDigits(local % 60)
    IN CASE locale = "en-US" ->
              Digits(hour12) \o rest
              \o (IF hour < 12 THEN <<" ", "A", "M">> ELSE <<" ", "P", "M">>)
         [] locale = "en-IN" ->
              Digits(hour12) \o rest
              \o (IF hour < 12 THEN <<" ", "a", "m">> ELSE <<" ", "p", "m">>)
         [] locale = "ja-JP" -> Digits(hour) \o rest
         [] OTHER -> TwoDigits(hour) \o rest

\* Natural numbers wider than the integers of the checker, as sequences of
\* digits in base 1024, least significant first
RECURSIVE Limbs(_)
Limbs(n) == IF n = 0 THEN <<>> ELSE <<n % 1024>> \o Limbs(n \div 1024)

\* a * k + carry
RECURSIVE LimbsTimes(_, _, _)
LimbsTimes(a, k, carry) ==
    IF a = <<>> THEN Limbs(carry)
    ELSE LET t == a[1] * k + carry
         IN <<t % 1024>> \o LimbsTimes(Tail(a), k, t \div 1024)

\* a * 2^s
LimbsShiftLeft(a, s) ==
    [i \in 1..(s \div 10) |-> 0] \o LimbsTimes(a, 2 ^ (s % 10), 0)

\* a without its leading zero digits
RECURSIVE LimbsTrim(_)
LimbsTrim(a) ==
    IF a = <<>> \/ a[Len(a)] # 0 THEN a ELSE LimbsTrim(SubSeq(a, 1, Len(a) - 1))

\* Quotient and remainder of a by the positive integer d
RECURSIVE LimbsDivide(_, _)
LimbsDivide(a, d) ==
    IF a = <<>> THEN [q |-> <<>>, r |-> 0]
    ELSE LET high == LimbsDivide(Tail(a), d)
             t == high.r * 1024 + a[1]
         IN [q |-> <<t \div d>> \o high.q, r |-> t % d]

RECURSIVE LimbsValue(_)
LimbsValue(a) == IF a = <<>> THEN 0 ELSE a[1] + 1024 * LimbsValue(Tail(a))

\* Number of binary digits of n
RECURSIVE BitLength(_)
BitLength(n) == IF n = 0 THEN 0 ELSE 1 + BitLength(n \div 2)

\* Number of binary digits of a
LimbsBitLength(a) ==
    LET t == LimbsTrim(a)
    IN IF t = <<>> THEN 0 ELSE 10 * (Len(t) - 1) + BitLength(t[Len(t)])

\* a / d rounded to the nearest natural number, ties to even: the rounding
\* of IEEE 754 arithmetic
RoundHalfEven(a, d) ==
    LET qr == LimbsDivide(a, d)
        q == LimbsTrim(qr.q)
        odd == q # <<>> /\ q[1] % 2 = 1
    IN IF 2 * qr.r > d \/ (2 * qr.r = d /\ odd) THEN LimbsTimes(q, 1, 1) ELSE q

\* The Number a JSON response holds for the decimal value / 1000000: the
\* double nearest to it, as mant / 2^exp with mant of 53 bits
DoubleOfMillionths(value) ==
    LET wide == LimbsDivide(LimbsShiftLeft(Limbs(value), 80), 1000000).q
        exp == 80 - (LimbsBitLength(wide) - 53)
    IN [mant |-> RoundHalfEven(LimbsShiftLeft(Limbs(value), exp), 1000000),
        exp |-> exp]

\* x * 100 in double arithmetic: the product rounded to 53 bits
DoubleTimes100(x) ==
    LET product == LimbsTimes(x.mant, 100, 0)
        length == LimbsBitLength(product)
        drop == IF length > 53 THEN length - 53 ELSE 0
    IN [mant |-> RoundHalfEven(product, 2 ^ drop), exp |-> x.exp - drop]

\* Number.prototype.toFixed(2), as a count of hundredths: the integer n for
\* which n / 100 is nearest to the exact value of x, the larger n at a tie
ToFixed2(x) ==
    LET scaled == LimbsTimes(x.mant, 100, 0)
        shift == x.exp - 1
        kept == SubSeq(scaled, (shift \div 10) + 1, Len(scaled))
        halves == LimbsValue(LimbsDivide(kept, 2 ^ (shift % 10)).q)
    IN (halves + 1) \div 2

\* (value * 100).toFixed(2) followed by '%', for value millionths
PercentText(value) ==
    LET hundredths == IF value = 0 THEN 0
                      ELSE ToFixed2(DoubleTimes100(DoubleOfMillionths(value)))
    IN Digits(hundredths \div 100) \o <<".">> \o TwoDigits(hundredths % 100)
       \o <<"%">>

\* onUploadProgress events: loaded and total byte counts (total 0 when the
\* length is not computable)
ProgressEvents ==
    { [loaded |-> 2, total |-> 3], [loaded |-> 2, total |-> 0] }

\* Math.round((loaded * 100) / total)
ProgressPercent(loaded, total) == (2 * loaded * 100 + total) \div (2 * total)

\* submissionsRemaining values GET /submissions-remaining may report
RemainingValues == {5}

----------------------------------------------------------------------------
(* Leaderboard: responses of GET /leaderboard?limit=20 and the state after *)
(* construction.                                                           *)

\* What started a fetchLeaderboard call: the mount effect, the interval
\* callback, or handleRefresh
Origins == {"mount", "interval", "manual"}

MsgUnexpectedFormat == "Received unexpected data format from server"

MsgLeaderboardFailed == "Failed to load leaderboard"

LeaderboardA ==
    <<[user_id |-> "alice", item_accuracy |-> 910000]>>

LeaderboardB ==
    <<[user_id |-> "bob", item_accuracy |-> 930000],
      [user_id |-> "alice", item_accuracy |-> 910000]>>

\* response.data, whether it has a leaderboard field, and whether that field
\* is an array
LeaderboardResponses ==
    { [hasData |-> TRUE, hasLeaderboard |-> TRUE, isArray |-> TRUE,
       leaderboard |-> LeaderboardA],
      [hasData |-> TRUE, hasLeaderboard |-> TRUE, isArray |-> TRUE,
       leaderboard |-> LeaderboardB],
      [hasData |-> TRUE, hasLeaderboard |-> TRUE, isArray |-> FALSE,
       leaderboard |-> <<>>],
      [hasData |-> FALSE, hasLeaderboard |-> FALSE, isArray |-> FALSE,
       leaderboard |-> <<>>] }

LeaderboardFailures ==
    { NetworkFailure,
      Failure(TRUE, 500, TRUE, TRUE, "Database unavailable", FALSE, 0),
      Failure(TRUE, 502, FALSE, FALSE, "", FALSE, 0) }

\* No request of any origin
NoRequests == [o \in Origins |-> 0]

\* The useState initial values; the mount effect has called fetchLeaderboard
\* and setInterval
LeaderboardInit ==
    /\ leaderboard = <<>>
    /\ lbIsLoading = TRUE
    /\ lastUpdated = <<>>
    /\ isRefreshing = TRUE
    /\ lbMounted = TRUE
    /\ intervalActive = TRUE
    /\ lbInFlight = [NoRequests EXCEPT !["mount"] = 1]
    /\ lbIssued = [NoRequests EXCEPT !["mount"] = 1]
    /\ periods = 0
    /\ lbToasts = <<>>

----------------------------------------------------------------------------
(* Dashboard: responses of GET /scores and GET /remaining-submissions and  *)
(* the state after construction.                                           *)

MsgDashboardFailed == "Failed to load dashboard data"

ScoresResponses ==
    { [scores |-> <<>>,
       stats |-> [total_submissions |-> 0, best_f1 |-> 0, uploads_today |-> 0]],
      [scores |-> <<[item_accuracy |-> 870000,
                     timestamp |-> "2024-01-01T00:00:00Z"]>>,
       stats |-> [total_submissions |-> 1, best_f1 |-> 870000,
                  uploads_today |-> 1]],
      [scores |-> <<[item_accuracy |-> 870000,
                     timestamp |-> "2024-01-01T00:00:00Z"],
                    [item_accuracy |-> 999960,
                     timestamp |-> "2024-01-02T12:30:45Z"]>>,
       stats |-> [total_submissions |-> 2, best_f1 |-> 999960,
                  uploads_today |-> 1]],
      [scores |-> <<[item_accuracy |-> 512,
                     timestamp |-> "2024-01-03T08:00:00Z"]>>,
       stats |-> [total_submissions |-> 1, best_f1 |-> 512,
                  uploads_today |-> 1]] }

RemainingResponses ==
    { [submissions_remaining |-> 5, max_daily_submissions |-> 5,
       next_reset |-> "2024-01-02T00:00:00Z"],
      [submissions_remaining |-> 3, max_daily_submissions |-> 5,
       next_reset |-> "2024-01-02T00:00:00Z"],
      [submissions_remaining |-> 0, max_daily_submissions |-> 5,
       next_reset |-> "2024-01-03T00:00:00Z"],
      [submissions_remaining |-> 10, max_daily_submissions |-> 10,
       next_reset |-> "2024-01-02T00:00:00Z"] }

DashboardFailures ==
    { NetworkFailure,
      Failure(TRUE, 401, TRUE, TRUE, "Unauthorized", FALSE, 0),
      Failure(TRUE, 500, FALSE, FALSE, "", FALSE, 0) }

\* A request that has not settled; a settled one holds its response data or
\* its error
Pending == [status |-> "pending", data |-> <<>>]

\* The useState initial values; the mount effect has issued both requests
DashboardInit ==
    /\ scores = <<>>
    /\ stats = <<>>
    /\ dashIsLoading = TRUE
    /\ scoresRequest = Pending
    /\ remainingRequest = Pending
    /\ dashSettled = FALSE
    /\ dashMounted = TRUE
    /\ dashToasts = <<>>

----------------------------------------------------------------------------
(* The component after construction: the useState initial values, and the  *)
(* mount effect has issued GET /submissions-remaining.                     *)

Init ==
    /\ file = NoFile
    /\ isDragging = FALSE
    /\ isUploading = FALSE
    /\ uploadProgress = 0
    /\ result = <<>>
    /\ csvPreview = <<>>
    /\ submissionsRemaining = <<>>
    /\ reads = EmptyBag
    /\ uploads = <<>>
    /\ requirements = "pending"
    /\ toasts = <<>>
    /\ uncaught = FALSE
    /\ postCount = 0
    /\ submitCount = 0
    /\ LeaderboardInit
    /\ DashboardInit

\* fetchRequirements, the response arrives
fetchRequirementsResolved(n) ==
    /\ requirements = "pending"
    /\ requirements' = "settled"
    /\ submissionsRemaining' = <<n>>
    /\ toasts' = <<>>
    /\ uncaught' = FALSE
    /\ UNCHANGED <<file, isDragging, isUploading, uploadProgress, result,
                   csvPreview, reads, uploads, postCount, submitCount>>
    /\ UNCHANGED <<leaderboardVars, dashboardVars>>

\* fetchRequirements, the request fails: console.error only
fetchRequirementsRejected ==
    /\ requirements = "pending"
    /\ requirements' = "settled"
    /\ toasts' = <<>>
    /\ uncaught' = FALSE
    /\ UNCHANGED <<file, isDragging, isUploading, uploadProgress, result,
                   csvPreview, submissionsRemaining, reads, uploads, postCount,
                   submitCount>>
    /\ UNCHANGED <<leaderboardVars, dashboardVars>>

handleDragOver ==
    /\ isDragging' = TRUE
    /\ toasts' = <<>>
    /\ uncaught' = FALSE
    /\ UNCHANGED <<file, isUploading, uploadProgress, result, csvPreview,
                   submissionsRemaining, reads, uploads, requirements, postCount,
                   submitCount>>
    /\ UNCHANGED <<leaderboardVars, dashboardVars>>

handleDragLeave ==
    /\ isDragging' = FALSE
    /\ toasts' = <<>>
    /\ uncaught' = FALSE
    /\ UNCHANGED <<file, isUploading, uploadProgress, result, csvPreview,
                   submissionsRemaining, reads, uploads, requirements, postCount,
                   submitCount>>
    /\ UNCHANGED <<leaderboardVars, dashboardVars>>

\* Mutant: the return after the CSV check's toast is missing
validateAndSetFile_NoReturn(f) ==
    IF TooLarge(f)
    THEN /\ toasts' = <<ToastError(MsgTooLarge, <<>>)>>
         /\ UNCHANGED <<file, result, reads>>
    ELSE /\ reads' = reads (+) SetToBag({f})
         /\ file' = f
         /\ result' = <<>>
         /\ toasts' = IF NotCsv(f) THEN <<ToastError(MsgOnlyCsv, <<>>)>> ELSE <<>>

\* validateAndSetFile(file): the state it sets and the read it starts
validateAndSetFile(f) ==
    IF NotCsv(f)
    THEN /\ toasts' = <<ToastError(MsgOnlyCsv, <<>>)>>
         /\ UNCHANGED <<file, result, reads>>
    ELSE IF TooLarge(f)
    THEN /\ toasts' = <<ToastError(MsgTooLarge, <<>>)>>
         /\ UNCHANGED <<file, result, reads>>
    ELSE /\ reads' = reads (+) SetToBag({f})
         /\ file' = f
         /\ result' = <<>>
         /\ toasts' = <<>>

\* Fewer than MaxReads reads are outstanding, or f starts none
ReadAllowed(f) == Accepted(f) => BagCardinality(reads) < MaxReads

\* handleDrop with a file in e.dataTransfer.files
handleDrop(f) ==
    /\ isDragging' = FALSE
    /\ ReadAllowed(f)
    /\ validateAndSetFile(f)
    /\ uncaught' = FALSE
    /\ UNCHANGED <<isUploading, uploadProgress, csvPreview, submissionsRemaining,
                   uploads, requirements, postCount, submitCount>>
    /\ UNCHANGED <<leaderboardVars, dashboardVars>>

\* handleDrop with nothing in e.dataTransfer.files
handleDropNoFiles ==
    /\ isDragging' = FALSE
    /\ toasts' = <<>>
    /\ uncaught' = FALSE
    /\ UNCHANGED <<file, isUploading, uploadProgress, result, csvPreview,
                   submissionsRemaining, reads, uploads, requirements, postCount,
                   submitCount>>
    /\ UNCHANGED <<leaderboardVars, dashboardVars>>

\* handleFileChange: the file input is rendered only while no file is selected
handleFileChange(f) ==
    /\ file = NoFile
    /\ ReadAllowed(f)
    /\ validateAndSetFile(f)
    /\ uncaught' = FALSE
    /\ UNCHANGED <<isDragging, isUploading, uploadProgress, csvPreview,
                   submissionsRemaining, uploads, requirements, postCount,
                   submitCount>>
    /\ UNCHANGED <<leaderboardVars, dashboardVars>>

\* What reader.onload computes from each file's text: the rows it passes to
\* setCsvPreview and the toast calls of the header check
OnloadOutcome ==
    [f \in FileIds |->
        LET rows == PreviewOf(Files[f].text)
        IN [rows |-> rows, toasts |-> HeaderToasts(rows)]]

\* Mutant: the walmart_id error deselects the file
readerOnload_Blocking(f) ==
    /\ BagIn(f, reads)
    /\ reads' = reads (-) SetToBag({f})
    /\ csvPreview' = OnloadOutcome[f].rows
    /\ toasts' = OnloadOutcome[f].toasts
    /\ file' = IF /\ file = f
                  /\ OnloadOutcome[f].toasts = <<ToastError(MsgNeedWalmartId, <<>>)>>
               THEN NoFile
               ELSE file
    /\ uncaught' = FALSE
    /\ UNCHANGED <<isDragging, isUploading, uploadProgress, result,
                   submissionsRemaining, uploads, requirements, postCount,
                   submitCount>>
    /\ UNCHANGED <<leaderboardVars, dashboardVars>>

\* reader.onload of a read started by validateAndSetFile
readerOnload(f) ==
    /\ BagIn(f, reads)
    /\ reads' = reads (-) SetToBag({f})
    /\ csvPreview' = OnloadOutcome[f].rows
    /\ toasts' = OnloadOutcome[f].toasts
    /\ uncaught' = FALSE
    /\ UNCHANGED <<file, isDragging, isUploading, uploadProgress, result,
                   submissionsRemaining, uploads, requirements, postCount,
                   submitCount>>
    /\ UNCHANGED <<leaderboardVars, dashboardVars>>

\* Mutant: the Upload button stays available during an upload
handleUpload_Ungated ==
    /\ file # NoFile
    /\ submitCount < MaxUploads
    /\ isUploading' = TRUE
    /\ uploadProgress' = 0
    /\ uploads' = Append(uploads, file)
    /\ postCount' = postCount + 1
    /\ submitCount' = submitCount + 1
    /\ toasts' = <<>>
    /\ uncaught' = FALSE
    /\ UNCHANGED <<file, isDragging, result, csvPreview, submissionsRemaining,
                   reads, requirements>>
    /\ UNCHANGED <<leaderboardVars, dashboardVars>>

\* handleUpload up to the await: the Upload button is rendered only while a
\* file is selected and isUploading is false
handleUpload ==
    /\ file # NoFile
    /\ ~isUploading
    /\ submitCount < MaxUploads
    /\ IF file = NoFile
       THEN /\ toasts' = <<ToastError(MsgSelectFile, <<>>)>>
            /\ UNCHANGED <<isUploading, uploadProgress, uploads, postCount,
                           submitCount>>
       ELSE /\ isUploading' = TRUE
            /\ uploadProgress' = 0
            /\ uploads' = Append(uploads, file)
            /\ postCount' = postCount + 1
            /\ submitCount' = submitCount + 1
            /\ toasts' = <<>>
    /\ uncaught' = FALSE
    /\ UNCHANGED <<file, isDragging, result, csvPreview, submissionsRemaining,
                   reads, requirements>>
    /\ UNCHANGED <<leaderboardVars, dashboardVars>>

\* onUploadProgress of the request in flight
onUploadProgress(ev) ==
    /\ uploads # <<>>
    /\ uploadProgress' = IF ev.total # 0
                         THEN ProgressPercent(ev.loaded, ev.total)
                         ELSE uploadProgress
    /\ toasts' = <<>>
    /\ uncaught' = FALSE
    /\ UNCHANGED <<file, isDragging, isUploading, result, csvPreview,
                   submissionsRemaining, reads, uploads, requirements, postCount,
                   submitCount>>
    /\ UNCHANGED <<leaderboardVars, dashboardVars>>

\* Mutant: setSubmissionsRemaining is not called
handleUploadResolved_NoQuota(data) ==
    /\ uploads # <<>>
    /\ uploads' = Tail(uploads)
    /\ result' = <<data>>
    /\ toasts' = <<ToastSuccess(MsgUploaded)>>
    /\ isUploading' = FALSE
    /\ uncaught' = FALSE
    /\ UNCHANGED <<file, isDragging, uploadProgress, csvPreview,
                   submissionsRemaining, reads, requirements, postCount,
                   submitCount>>
    /\ UNCHANGED <<leaderboardVars, dashboardVars>>

\* handleUpload after the await, the request succeeded
handleUploadResolved(data) ==
    /\ uploads # <<>>
    /\ uploads' = Tail(uploads)
    /\ result' = <<data>>
    /\ submissionsRemaining' = <<data.submissionsRemaining>>
    /\ toasts' = <<ToastSuccess(MsgUploaded)>>
    /\ isUploading' = FALSE
    /\ uncaught' = FALSE
    /\ UNCHANGED <<file, isDragging, uploadProgress, csvPreview, reads,
                   requirements, postCount, submitCount>>
    /\ UNCHANGED <<leaderboardVars, dashboardVars>>

\* The catch block of handleUpload: the toast calls it makes for error,
\* rendering a reset time in the zone offset minutes from UTC and in the
\* default locale of the runtime
CatchToasts(error, offset, locale) ==
    IF error.hasResponse /\ error.status = 429
    THEN <<ToastError(MsgRateLimit,
                      IF error.hasNextReset
                      THEN LocaleTimeString(error.nextReset, offset, locale)
                      ELSE Str_tomorrow)>>
    ELSE <<ToastError(IF error.hasData /\ error.hasError /\ error.error # ""
                      THEN error.error
                      ELSE MsgUploadFailed, <<>>)>>

\* serverError.nextReset is read from an undefined serverError
CatchThrows(error) == error.hasResponse /\ error.status = 429 /\ ~error.hasData

\* Mutant: the catch block issues the request again
handleUploadRejected_Retry(error, offset, locale) ==
    /\ uploads # <<>>
    /\ uploads' = Append(Tail(uploads), uploads[1])
    /\ postCount' = postCount + 1
    /\ IF CatchThrows(error)
       THEN toasts' = <<>> /\ uncaught' = TRUE
       ELSE toasts' = CatchToasts(error, offset, locale) /\ uncaught' = FALSE
    /\ UNCHANGED <<file, isDragging, isUploading, uploadProgress, result,
                   csvPreview, submissionsRemaining, reads, requirements,
                   submitCount>>
    /\ UNCHANGED <<leaderboardVars, dashboardVars>>

\* handleUpload after the await, the request failed: catch, then finally
handleUploadRejected(error, offset, locale) ==
    /\ uploads # <<>>
    /\ uploads' = Tail(uploads)
    /\ IF CatchThrows(error)
       THEN toasts' = <<>> /\ uncaught' = TRUE
       ELSE toasts' = CatchToasts(error, offset, locale) /\ uncaught' = FALSE
    /\ isUploading' = FALSE
    /\ UNCHANGED <<file, isDragging, uploadProgress, result, csvPreview,
                   submissionsRemaining, reads, requirements, postCount,
                   submitCount>>
    /\ UNCHANGED <<leaderboardVars, dashboardVars>>

\* Mutant: setCsvPreview([]) is not called
handleRemoveFile_KeepPreview ==
    /\ file # NoFile
    /\ ~isUploading
    /\ file' = NoFile
    /\ result' = <<>>
    /\ toasts' = <<>>
    /\ uncaught' = FALSE
    /\ UNCHANGED <<isDragging, isUploading, uploadProgress, csvPreview,
                   submissionsRemaining, reads, uploads, requirements, postCount,
                   submitCount>>
    /\ UNCHANGED <<leaderboardVars, dashboardVars>>

\* handleRemoveFile: the remove button is rendered while a file is selected
\* and disabled while isUploading
handleRemoveFile ==
    /\ file # NoFile
    /\ ~isUploading
    /\ file' = NoFile
    /\ csvPreview' = <<>>
    /\ result' = <<>>
    /\ toasts' = <<>>
    /\ uncaught' = FALSE
    /\ UNCHANGED <<isDragging, isUploading, uploadProgress, submissionsRemaining,
                   reads, uploads, requirements, postCount, submitCount>>
    /\ UNCHANGED <<leaderboardVars, dashboardVars>>

Next ==
    \/ \E n \in RemainingValues : fetchRequirementsResolved(n)
    \/ fetchRequirementsRejected
    \/ handleDragOver
    \/ handleDragLeave
    \/ \E f \in FileIds : handleDrop(f)
    \/ handleDropNoFiles
    \/ \E f \in FileIds : handleFileChange(f)
    \/ \E f \in FileIds : readerOnload(f)
    \/ handleUpload
    \/ \E ev \in ProgressEvents : onUploadProgress(ev)
    \/ \E data \in UploadResponses : handleUploadResolved(data)
    \/ \E error \in UploadFailures :
           \E offset \in IF error.hasNextReset THEN TimeZoneOffsets ELSE {0},
              locale \in IF error.hasNextReset THEN Locales ELSE {"en-US"} :
               handleUploadRejected(error, offset, locale)
    \/ handleRemoveFile

Spec == Init /\ [][Next]_vars

----------------------------------------------------------------------------
(* Leaderboard (src/src/pages/Leaderboard.tsx).                            *)

\* fetchLeaderboard up to the await: setIsRefreshing(true) and the request
fetchLeaderboard(origin) ==
    /\ isRefreshing' = TRUE
    /\ lbInFlight' = [lbInFlight EXCEPT ![origin] = @ + 1]
    /\ lbIssued' = [lbIssued EXCEPT ![origin] = @ + 1]
    /\ lbToasts' = <<>>
    /\ UNCHANGED <<leaderboard, lbIsLoading, lastUpdated>>

\* Mutant: the interval callback skips the fetch while one is in progress
intervalElapses_Dedup ==
    /\ periods < MaxPeriods
    /\ periods' = periods + 1
    /\ IF intervalActive /\ ~isRefreshing
       THEN fetchLeaderboard("interval")
       ELSE /\ lbToasts' = <<>>
            /\ UNCHANGED <<leaderboard, lbIsLoading, lastUpdated, isRefreshing,
                           lbInFlight, lbIssued>>
    /\ UNCHANGED <<lbMounted, intervalActive>>
    /\ UNCHANGED <<uploadVars, dashboardVars>>

\* One interval period (2 * 60 * 1000 ms) passes: the interval callback runs
\* if the timer has not been cleared
intervalElapses ==
    /\ periods < MaxPeriods
    /\ periods' = periods + 1
    /\ IF intervalActive
       THEN fetchLeaderboard("interval")
       ELSE /\ lbToasts' = <<>>
            /\ UNCHANGED <<leaderboard, lbIsLoading, lastUpdated, isRefreshing,
                           lbInFlight, lbIssued>>
    /\ UNCHANGED <<lbMounted, intervalActive>>
    /\ UNCHANGED <<uploadVars, dashboardVars>>

\* handleRefresh: the Refresh button is rendered once isLoading is false and
\* is disabled while isRefreshing
handleRefresh ==
    /\ lbMounted
    /\ ~lbIsLoading
    /\ ~isRefreshing
    /\ lbIssued["manual"] < MaxRefreshes
    /\ fetchLeaderboard("manual")
    /\ UNCHANGED <<lbMounted, intervalActive, periods>>
    /\ UNCHANGED <<uploadVars, dashboardVars>>

\* response.data && response.data.leaderboard && Array.isArray(...)
WellFormed(data) == data.hasData /\ data.hasLeaderboard /\ data.isArray

\* fetchLeaderboard after the await, the request succeeded: try, finally
fetchLeaderboardResolved(origin, data) ==
    /\ lbInFlight[origin] > 0
    /\ lbInFlight' = [lbInFlight EXCEPT ![origin] = @ - 1]
    /\ IF WellFormed(data)
       THEN /\ leaderboard' = data.leaderboard
            /\ lbToasts' = <<>>
       ELSE /\ leaderboard' = <<>>
            /\ lbToasts' = <<ToastError(MsgUnexpectedFormat, <<>>)>>
    /\ lastUpdated' = <<periods>>
    /\ lbIsLoading' = FALSE
    /\ isRefreshing' = FALSE
    /\ UNCHANGED <<lbMounted, intervalActive, lbIssued, periods>>
    /\ UNCHANGED <<uploadVars, dashboardVars>>

\* error.response?.data?.error || fallback
ErrorMessage(error, fallback) ==
    IF error.hasResponse /\ error.hasData /\ error.hasError /\ error.error # ""
    THEN error.error
    ELSE fallback

\* fetchLeaderboard after the await, the request failed: catch, finally
fetchLeaderboardRejected(origin, error) ==
    /\ lbInFlight[origin] > 0
    /\ lbInFlight' = [lbInFlight EXCEPT ![origin] = @ - 1]
    /\ lbToasts' = <<ToastError(ErrorMessage(error, MsgLeaderboardFailed), <<>>)>>
    /\ leaderboard' = <<>>
    /\ lbIsLoading' = FALSE
    /\ isRefreshing' = FALSE
    /\ UNCHANGED <<lastUpdated, lbMounted, intervalActive, lbIssued, periods>>
    /\ UNCHANGED <<uploadVars, dashboardVars>>

\* Mutant: the cleanup does not clear the interval
leaderboardUnmount_NoClear ==
    /\ lbMounted
    /\ lbMounted' = FALSE
    /\ lbToasts' = <<>>
    /\ UNCHANGED <<leaderboard, lbIsLoading, lastUpdated, isRefreshing,
                   intervalActive, lbInFlight, lbIssued, periods>>
    /\ UNCHANGED <<uploadVars, dashboardVars>>

\* The cleanup of the mount effect: clearInterval(intervalId)
leaderboardUnmount ==
    /\ lbMounted
    /\ lbMounted' = FALSE
    /\ intervalActive' = FALSE
    /\ lbToasts' = <<>>
    /\ UNCHANGED <<leaderboard, lbIsLoading, lastUpdated, isRefreshing,
                   lbInFlight, lbIssued, periods>>
    /\ UNCHANGED <<uploadVars, dashboardVars>>

NextLeaderboard ==
    \/ intervalElapses
    \/ handleRefresh
    \/ \E origin \in Origins, data \in LeaderboardResponses :
           fetchLeaderboardResolved(origin, data)
    \/ \E origin \in Origins, error \in LeaderboardFailures :
           fetchLeaderboardRejected(origin, error)
    \/ leaderboardUnmount

SpecLeaderboard == Init /\ [][NextLeaderboard]_vars

----------------------------------------------------------------------------
(* Dashboard (src/src/pages/Dashboard.tsx): fetchUserData awaits            *)
(* Promise.all of the two requests, which fulfils when both have and       *)
(* rejects with the first failure.                                         *)

Fulfilled(data) == [status |-> "ok", data |-> <<data>>]

Rejected(error) == [status |-> "failed", data |-> <<error>>]

\* The object passed to setStats
StatsOf(scoresData, remainingData) ==
    [total_submissions |-> scoresData.stats.total_submissions,
     best_f1 |-> scoresData.stats.best_f1,
     uploads_today |-> scoresData.stats.uploads_today,
     submissions_remaining |-> remainingData.submissions_remaining,
     max_daily_submissions |-> remainingData.max_daily_submissions,
     next_reset |-> remainingData.next_reset]

\* fetchUserData after the await, both requests succeeded: try, finally
fetchUserDataResolved(scoresData, remainingData) ==
    /\ scores' = scoresData.scores
    /\ stats' = <<StatsOf(scoresData, remainingData)>>
    /\ dashToasts' = <<>>
    /\ dashIsLoading' = FALSE
    /\ dashSettled' = TRUE

\* fetchUserData after the await, Promise.all rejected: catch, finally
fetchUserDataRejected(error) ==
    /\ dashToasts' = <<ToastError(ErrorMessage(error, MsgDashboardFailed), <<>>)>>
    /\ dashIsLoading' = FALSE
    /\ dashSettled' = TRUE
    /\ UNCHANGED <<scores, stats>>

\* A settlement that Promise.all does not pass on: no code of the component
\* runs
NothingAwaits == UNCHANGED <<scores, stats, dashIsLoading, dashSettled, dashToasts>>

\* Mutant: the scores are set as soon as GET /scores succeeds
scoresResolved_Eager(data) ==
    /\ scoresRequest = Pending
    /\ scoresRequest' = Fulfilled(data)
    /\ scores' = data.scores
    /\ IF ~dashSettled /\ remainingRequest.status = "ok"
       THEN /\ stats' = <<StatsOf(data, remainingRequest.data[1])>>
            /\ dashToasts' = <<>>
            /\ dashIsLoading' = FALSE
            /\ dashSettled' = TRUE
       ELSE UNCHANGED <<stats, dashIsLoading, dashSettled, dashToasts>>
    /\ UNCHANGED <<remainingRequest, dashMounted>>
    /\ UNCHANGED <<uploadVars, leaderboardVars>>

\* GET /scores succeeds
scoresResolved(data) ==
    /\ scoresRequest = Pending
    /\ scoresRequest' = Fulfilled(data)
    /\ IF ~dashSettled /\ remainingRequest.status = "ok"
       THEN fetchUserDataResolved(data, remainingRequest.data[1])
       ELSE NothingAwaits
    /\ UNCHANGED <<remainingRequest, dashMounted>>
    /\ UNCHANGED <<uploadVars, leaderboardVars>>

\* GET /scores fails
scoresRejected(error) ==
    /\ scoresRequest = Pending
    /\ scoresRequest' = Rejected(error)
    /\ IF ~dashSettled THEN fetchUserDataRejected(error) ELSE NothingAwaits
    /\ UNCHANGED <<remainingRequest, dashMounted>>
    /\ UNCHANGED <<uploadVars, leaderboardVars>>

\* GET /remaining-submissions succeeds
remainingResolved(data) ==
    /\ remainingRequest = Pending
    /\ remainingRequest' = Fulfilled(data)
    /\ IF ~dashSettled /\ scoresRequest.status = "ok"
       THEN fetchUserDataResolved(scoresRequest.data[1], data)
       ELSE NothingAwaits
    /\ UNCHANGED <<scoresRequest, dashMounted>>
    /\ UNCHANGED <<uploadVars, leaderboardVars>>

\* GET /remaining-submissions fails
remainingRejected(error) ==
    /\ remainingRequest = Pending
    /\ remainingRequest' = Rejected(error)
    /\ IF ~dashSettled THEN fetchUserDataRejected(error) ELSE NothingAwaits
    /\ UNCHANGED <<scoresRequest, dashMounted>>
    /\ UNCHANGED <<uploadVars, leaderboardVars>>

\* The component is unmounted (the effect has no cleanup): requests stay in
\* flight and their continuations still run
dashboardUnmount ==
    /\ dashMounted
    /\ dashMounted' = FALSE
    /\ UNCHANGED <<scores, stats, dashIsLoading, scoresRequest, remainingRequest,
                   dashSettled, dashToasts>>
    /\ UNCHANGED <<uploadVars, leaderboardVars>>

NextDashboard ==
    \/ \E data \in ScoresResponses : scoresResolved(data)
    \/ \E error \in DashboardFailures : scoresRejected(error)
    \/ \E data \in RemainingResponses : remainingResolved(data)
    \/ \E error \in DashboardFailures : remainingRejected(error)
    \/ dashboardUnmount

SpecDashboard == Init /\ [][NextDashboard]_vars

----------------------------------------------------------------------------
(* What the page displays (the JSX of the component).                      *)

\* The texts of the item accuracies the responses carry
AccuracyTexts ==
    [value \in {data.item_accuracy : data \in UploadResponses} |->
        PercentText(value)]

\* {(result.item_accuracy * 100).toFixed(2)}%
ItemAccuracyText == AccuracyTexts[result[1].item_accuracy]

\* Submissions remaining today: {result.submissionsRemaining}
ResultRemainingText == Digits(result[1].submissionsRemaining)

\* Submissions remaining today: {submissionsRemaining}
QuotaText == Digits(submissionsRemaining[1])

----------------------------------------------------------------------------
(* Properties.  The facts about the files that the properties speak of are *)
(* stated here on the files themselves, apart from the code's checks.      *)

\* The last four characters of the name are ".csv"
NameIsDotCsv(f) ==
    LET n == Files[f].name
        k == Len(n)
    IN k >= 4 /\ n[k - 3] = "." /\ n[k - 2] = "c" /\ n[k - 1] = "s" /\ n[k] = "v"

\* Neither a ".csv" name nor the MIME type text/csv
NonCsvFile(f) == ~NameIsDotCsv(f) /\ Files[f].type # "text/csv"

\* More than 5 * 1024 * 1024 bytes
OversizeFile(f) == Files[f].size > 5242880

NonCsvFiles == {f \in FileIds : NonCsvFile(f)}

OversizeFiles == {f \in FileIds : OversizeFile(f)}

\* The files of exactly 5 * 1024 * 1024 bytes that are CSV by name or type
LimitCsvFiles == {f \in FileIds : Files[f].size = 5242880 /\ ~NonCsvFile(f)}

\* f is handed to validateAndSetFile in this step
Selects(f) == handleDrop(f) \/ handleFileChange(f)

\* C1: a file that has neither a ".csv" name nor the MIME type text/csv is
\* rejected by validateAndSetFile: the step reports the error "Only CSV files
\* are allowed", leaves the selected file, csvPreview and result as they were,
\* starts no read and issues no request; and such a file is never the
\* selected file, never being read, and never the file of a POST /upload
\* request.
C1_NonCsvRejected ==
    [][/\ \A f \in NonCsvFiles :
            Selects(f)
                => /\ toasts' = <<ToastError(MsgOnlyCsv, <<>>)>>
                   /\ file' = file
                   /\ csvPreview' = csvPreview
                   /\ result' = result
                   /\ reads' = reads
                   /\ uploads' = uploads
                   /\ postCount' = postCount
       /\ file' \notin NonCsvFiles
       /\ \A f \in NonCsvFiles : ~BagIn(f, reads')
       /\ \A i \in 1..Len(uploads') : uploads'[i] \notin NonCsvFiles]_vars

\* C1 witness: a non-CSV file has just been rejected while a file, its
\* preview and a result were in place.
C1_Witness ==
    /\ toasts = <<ToastError(MsgOnlyCsv, <<>>)>>
    /\ file # NoFile
    /\ csvPreview # <<>>
    /\ result # <<>>

\* C2: a file of more than 5 * 1024 * 1024 bytes is rejected whatever its
\* name, type or content: the step reports one error and leaves the selected
\* file alone, starts no read and issues no request, and such a file is never
\* the selected file nor the file of a POST /upload request; a file of exactly
\* 5 * 1024 * 1024 bytes with a ".csv" name or the type text/csv becomes the
\* selected file.
C2_OversizeRejected ==
    [][/\ \A f \in OversizeFiles :
            Selects(f)
                => /\ Len(toasts') = 1
                   /\ toasts'[1].level = "error"
                   /\ file' = file
                   /\ reads' = reads
                   /\ uploads' = uploads
       /\ \A f \in LimitCsvFiles :
            Selects(f) => (file' = f /\ toasts' = <<>>)
       /\ file' \notin OversizeFiles
       /\ \A i \in 1..Len(uploads') : uploads'[i] \notin OversizeFiles]_vars

\* C2 witness: the file of exactly 5 MiB is selected and an oversize CSV file
\* has just been rejected.
C2_Witness ==
    /\ toasts = <<ToastError(MsgTooLarge, <<>>)>>
    /\ file # NoFile
    /\ Files[file].size = 5242880

\* The header row of the file's text, lower-cased
HeaderOf(f) == ToLowerCase(Split(Files[f].text, Newline)[1])

\* The files whose header row does not contain walmart_id
LacksWalmartId == {f \in FileIds : ~Includes(HeaderOf(f), Str_walmart_id)}

\* The category/brand column names in the order they are checked
ColumnNames ==
    <<Str_details_brand, Str_l0_category, Str_l1_category, Str_l2_category,
      Str_l3_category, Str_l4_category>>

\* The names from the i-th on that the header of f lacks, separated by ", "
RECURSIVE MissingFrom(_, _)
MissingFrom(f, i) ==
    IF i > Len(ColumnNames) THEN <<>>
    ELSE LET rest == MissingFrom(f, i + 1)
         IN IF Includes(HeaderOf(f), ColumnNames[i]) THEN rest
            ELSE IF rest = <<>> THEN ColumnNames[i]
            ELSE ColumnNames[i] \o <<",", " ">> \o rest

MissingList == [f \in FileIds |-> MissingFrom(f, 1)]

\* The files whose header row lacks at least one category/brand column
LacksColumns == {f \in FileIds : MissingList[f] # <<>>}

\* C3 as stated: once the header check has found walmart_id missing, the file
\* is no longer the selected file.
C3_AsStated ==
    [][\A f \in LacksWalmartId : readerOnload(f) => file' # f]_vars

\* C3 (amended): when the header row of a file that passed the extension and
\* size checks does not contain walmart_id, the header check reports exactly
\* the error 'CSV must contain a column named "walmart_id"' and nothing else;
\* it leaves the selected file, the result and the requests as they were, and
\* handleUpload run on such a file sends it.
C3_WalmartIdErrorOnly ==
    [][/\ \A f \in LacksWalmartId :
            readerOnload(f)
                => /\ toasts' = <<ToastError(MsgNeedWalmartId, <<>>)>>
                   /\ file' = file
                   /\ result' = result
                   /\ uploads' = uploads
       /\ (file \in LacksWalmartId /\ handleUpload)
            => (uploads' = Append(uploads, file) /\ toasts' = <<>>)]_vars

\* C3 witness: the walmart_id error has just been reported for the selected
\* file, which is still selected and not being uploaded.
C3_Witness ==
    /\ toasts = <<ToastError(MsgNeedWalmartId, <<>>)>>
    /\ file \in LacksWalmartId
    /\ csvPreview = OnloadOutcome[file].rows
    /\ ~isUploading

\* C4 as stated: the header check of every accepted file that lacks a
\* category/brand column reports the warning that lists the missing names.
C4_AsStated ==
    [][\A f \in LacksColumns :
            readerOnload(f)
                => toasts' = <<ToastError(MsgMissingColumns, MissingList[f])>>]_vars

\* C4 (amended): for every accepted file whose header row contains
\* walmart_id, the header check reports the warning "CSV is missing required
\* columns: " followed by exactly the missing category/brand column names,
\* separated by ", ", in the order details_brand, l0_category .. l4_category,
\* when at least one is missing, and reports nothing when none is missing.
C4_MissingColumnsListed ==
    [][\A f \in FileIds \ LacksWalmartId :
            readerOnload(f)
                => toasts' = IF f \in LacksColumns
                             THEN <<ToastError(MsgMissingColumns, MissingList[f])>>
                             ELSE <<>>]_vars

\* C4 witness: the warning for the file that lacks details_brand, l1_category
\* and l3_category has just been reported.
C4_Witness ==
    /\ Len(toasts) = 1
    /\ toasts[1].text = MsgMissingColumns
    /\ toasts[1].arg = Str_details_brand \o <<",", " ">> \o Str_l1_category
                        \o <<",", " ">> \o Str_l3_category
    /\ csvPreview # <<>>

\* The files that are CSV by name or type and within the size limit
AcceptableFiles == FileIds \ (NonCsvFiles \cup OversizeFiles)

\* C5: the header check is advisory.  Every file that passes the extension
\* and size checks becomes the selected file; the header check, whatever it
\* finds, changes neither the selected file nor the upload state; and
\* handleUpload sends the selected file whether its header lacks walmart_id,
\* lacks other columns, or has not been read yet.
C5_HeaderCheckAdvisory ==
    [][/\ \A f \in AcceptableFiles : Selects(f) => file' = f
       /\ \A f \in FileIds :
            readerOnload(f)
                => /\ file' = file
                   /\ isUploading' = isUploading
                   /\ uploads' = uploads
       /\ handleUpload
            => /\ uploads' = Append(uploads, file)
               /\ postCount' = postCount + 1]_vars

\* C5 witness: a file whose header lacks walmart_id is being uploaded after
\* its header check has run, while the read of another file is outstanding.
C5_Witness ==
    /\ uploads # <<>>
    /\ uploads[1] \in LacksWalmartId
    /\ csvPreview = OnloadOutcome[uploads[1]].rows
    /\ reads # EmptyBag

\* C6: after every successful /upload response result holds exactly the
\* response record and submissionsRemaining is the response's
\* submissionsRemaining, so the page shows that response's accuracy and
\* quota; item_accuracy 0.87 with submissionsRemaining 3 shows as "87.00%"
\* and "3".
C6_ResultIsResponse ==
    [][\A data \in UploadResponses :
            handleUploadResolved(data)
                => /\ result' = <<data>>
                   /\ submissionsRemaining' = <<data.submissionsRemaining>>
                   /\ (data.item_accuracy = 870000 /\ data.submissionsRemaining = 3)
                        => /\ ItemAccuracyText' = <<"8", "7", ".", "0", "0", "%">>
                           /\ ResultRemainingText' = <<"3">>
                           /\ QuotaText' = <<"3">>]_vars

\* C6 witness: the response with item_accuracy 0.87 and submissionsRemaining
\* 3 has just arrived, replacing the quota the page had fetched before.
C6_Witness ==
    /\ toasts = <<ToastSuccess(MsgUploaded)>>
    /\ requirements = "settled"
    /\ result # <<>>
    /\ result[1].item_accuracy = 870000
    /\ submissionsRemaining = <<3>>

\* An /upload request fails in this step; the zone and the locale matter
\* only to a failure that carries nextReset
UploadFails ==
    \E error \in UploadFailures :
        \E offset \in IF error.hasNextReset THEN TimeZoneOffsets ELSE {0},
           locale \in IF error.hasNextReset THEN Locales ELSE {"en-US"} :
            handleUploadRejected(error, offset, locale)

\* An /upload request settles in this step, successfully or not
UploadSettles ==
    \/ \E data \in UploadResponses : handleUploadResolved(data)
    \/ UploadFails

\* C7 as stated: the selected file and its preview are discarded when the
\* upload succeeds, when it fails, and on explicit removal.
C7_AsStated ==
    [][(UploadSettles \/ handleRemoveFile)
            => (file' = NoFile /\ csvPreview' = <<>>)]_vars

\* C7 (amended): the selected file and its preview are discarded on explicit
\* removal (handleRemoveFile), which also clears the result.  When an upload
\* succeeds or fails they are left as they were; on success the result
\* record is set beside them, on failure the result is left unchanged.
C7_DiscardedOnRemovalOnly ==
    [][/\ handleRemoveFile
            => (file' = NoFile /\ csvPreview' = <<>> /\ result' = <<>>)
       /\ \A data \in UploadResponses :
            handleUploadResolved(data)
                => (file' = file /\ csvPreview' = csvPreview /\ result' = <<data>>)
       /\ UploadFails
            => (file' = file /\ csvPreview' = csvPreview /\ result' = result)]_vars

\* C7 witness: an upload has just succeeded and the file and its preview are
\* still in place beside the result.
C7_Witness ==
    /\ toasts = <<ToastSuccess(MsgUploaded)>>
    /\ file # NoFile
    /\ csvPreview = OnloadOutcome[file].rows
    /\ result # <<>>

\* The reset time the notification of a 429 is to name: the localized time
\* of nextReset when the response carries one, 'tomorrow' otherwise
ResetText(error, offset, locale) ==
    IF error.hasData /\ error.hasNextReset
    THEN LocaleTimeString(error.nextReset, offset, locale)
    ELSE <<"t", "o", "m", "o", "r", "r", "o", "w">>

\* C8: whenever an /upload request fails with status 429, handleUpload shows
\* the rate-limit notification, naming the reset time derived from nextReset
\* when the response carries that field and 'tomorrow' when it does not, and
\* shows no other message.
C8_RateLimitNotified ==
    [][\A error \in UploadFailures, offset \in TimeZoneOffsets, locale \in Locales :
            (error.hasResponse /\ error.status = 429 /\ handleUploadRejected(error, offset, locale))
                => toasts' = <<ToastError(MsgRateLimit, ResetText(error, offset, locale))>>]_vars

\* C8 witness: a 429 whose body carries nextReset 2024-01-01T00:00:00Z has
\* just been reported with the time of that instant.
C8_Witness ==
    /\ Len(toasts) = 1
    /\ toasts[1].text = MsgRateLimit
    /\ toasts[1].arg \in { <<"1", "2", ":", "0", "0", ":", "0", "0", " ", "A", "M">>,
                           <<"5", ":", "3", "0", ":", "0", "0", " ", "A", "M">>,
                           <<"7", ":", "0", "0", ":", "0", "0", " ", "P", "M">>,
                           <<"0", "0", ":", "0", "0", ":", "0", "0">>,
                           <<"0", "5", ":", "3", "0", ":", "0", "0">>,
                           <<"1", "9", ":", "0", "0", ":", "0", "0">> }
    /\ ~isUploading

\* C9: every failure of a network call of the page is caught and shown: the
\* step in which the upload request or the submissions-remaining fetch fails
\* makes exactly one error notification, lets no exception escape, and
\* leaves isUploading false.
C9_FailuresNotified ==
    [][(UploadFails \/ fetchRequirementsRejected)
            => /\ Len(toasts') = 1
               /\ toasts'[1].level = "error"
               /\ ~uncaught'
               /\ ~isUploading']_vars

\* C9 witness: an upload has just failed without a response and the generic
\* message is shown.
C9_Witness ==
    /\ toasts = <<ToastError(MsgUploadFailed, <<>>)>>
    /\ ~uncaught
    /\ ~isUploading
    /\ postCount > 0

\* C10: no upload is retried.  The POST /upload requests issued are as many
\* as the handleUpload invocations with a file selected; a request is issued
\* only by a handleUpload step, one per step; and the step in which an
\* upload fails issues none.
C10_NoRetry ==
    [][/\ postCount' = submitCount'
       /\ postCount' # postCount => (handleUpload /\ postCount' = postCount + 1)
       /\ Len(uploads') > Len(uploads) => handleUpload
       /\ UploadFails => (uploads' = Tail(uploads) /\ postCount' = postCount)]_vars

\* C10 witness: after a failed upload the user has invoked handleUpload
\* again, and the second request is the only one in flight.
C10_Witness ==
    /\ postCount = 2
    /\ submitCount = 2
    /\ Len(uploads) = 1
    /\ isUploading

----------------------------------------------------------------------------
(* Properties of the Leaderboard and the Dashboard, and of the upload page *)
(* under interleavings.                                                    *)

\* GET /leaderboard requests in flight, of all origins
LeaderboardInFlight ==
    lbInFlight["mount"] + lbInFlight["interval"] + lbInFlight["manual"]

\* C11: once the Leaderboard is unmounted its interval is cancelled: from
\* then on no step issues a leaderboard request, however many interval
\* periods elapse and whether or not a request was in flight at unmount.
C11_NoRequestAfterUnmount ==
    [][/\ leaderboardUnmount => ~intervalActive'
       /\ ~lbMounted
            => /\ lbIssued' = lbIssued
               /\ LeaderboardInFlight' <= LeaderboardInFlight
               /\ ~lbMounted']_vars

\* C11 witness: the component was unmounted before the first period ended,
\* with the mount request in flight; two periods have elapsed since and no
\* interval request was issued.
C11_Witness ==
    /\ ~lbMounted
    /\ periods >= 2
    /\ lbIssued["interval"] = 0
    /\ lbInFlight["mount"] = 1

\* The fields of the two responses that setStats is to combine
StatsFromResponses ==
    LET s == scoresRequest.data[1].stats
        r == remainingRequest.data[1]
    IN <<[total_submissions |-> s.total_submissions, best_f1 |-> s.best_f1,
          uploads_today |-> s.uploads_today,
          submissions_remaining |-> r.submissions_remaining,
          max_daily_submissions |-> r.max_daily_submissions,
          next_reset |-> r.next_reset]>>

BothSucceeded == scoresRequest.status = "ok" /\ remainingRequest.status = "ok"

EitherFailed == scoresRequest.status = "failed" \/ remainingRequest.status = "failed"

\* C12: the Dashboard is refreshed wholesale.  scores or stats change only
\* in a step after which both GET /scores and GET /remaining-submissions
\* have succeeded, and the step in which the second of them succeeds sets
\* scores and stats from that pair of responses; once either request has
\* failed, neither scores nor stats changes, and the step of the first
\* failure clears isLoading.
C12_WholesaleRefresh ==
    [][/\ (scores' # scores \/ stats' # stats) => BothSucceeded'
       /\ (BothSucceeded' /\ ~BothSucceeded)
            => /\ scores' = scoresRequest'.data[1].scores
               /\ stats' = StatsFromResponses'
               /\ ~dashIsLoading'
       /\ EitherFailed' => (scores' = scores /\ stats' = stats)
       /\ (EitherFailed' /\ ~EitherFailed) => ~dashIsLoading']_vars

\* C12 witness: GET /scores succeeded with a score, GET
\* /remaining-submissions failed; scores and stats are as constructed and
\* isLoading is cleared.
C12_Witness ==
    /\ scoresRequest.status = "ok"
    /\ scoresRequest.data[1].scores # <<>>
    /\ remainingRequest.status = "failed"
    /\ scores = <<>>
    /\ stats = <<>>
    /\ ~dashIsLoading

\* C13: while the Leaderboard is mounted every interval tick issues one new
\* GET /leaderboard request, whatever earlier fetches did and whatever is in
\* flight: the tick is not held back by isRefreshing or by requests in
\* flight, and the new request is added to those outstanding.
C13_TicksIndependent ==
    [][/\ (lbMounted /\ intervalElapses)
            => /\ lbIssued' = [lbIssued EXCEPT !["interval"] = @ + 1]
               /\ lbInFlight' = [lbInFlight EXCEPT !["interval"] = @ + 1]
       /\ (lbMounted /\ periods < MaxPeriods) => ENABLED intervalElapses]_vars

\* C13 witness: two interval requests and a manual refresh are in flight at
\* once.
C13_Witness ==
    /\ lbMounted
    /\ lbInFlight["interval"] = 2
    /\ lbInFlight["manual"] = 1

\* C14: a non-null result belongs to the selected file: a response sets
\* result only when its request carried the file that is selected, and
\* result is cleared whenever the selected file changes.
C14_ResultOfSelectedFile ==
    [][/\ \A data \in UploadResponses :
            handleUploadResolved(data) => uploads[1] = file'
       /\ file' # file => result' = <<>>]_vars

\* C14 witness: a result is shown for the selected file, whose upload
\* produced it.
C14_Witness ==
    /\ result # <<>>
    /\ file # NoFile
    /\ toasts = <<ToastSuccess(MsgUploaded)>>

\* C15: csvPreview is empty or holds the first lines of the selected file,
\* and is empty whenever no file is selected.
C15_PreviewOfSelectedFile ==
    \/ csvPreview = <<>>
    \/ file # NoFile /\ csvPreview = PreviewOf(Files[file].text)

\* C15 witness: the preview of the selected file is shown while the read of
\* a file selected before it has completed.
C15_Witness ==
    /\ file # NoFile
    /\ csvPreview = OnloadOutcome[file].rows
    /\ reads = EmptyBag
    /\ result = <<>>

\* C16: isRefreshing is true exactly while a leaderboard request is in
\* flight.
C16_RefreshingIffInFlight == isRefreshing <=> (LeaderboardInFlight > 0)

\* C16 witness: all requests have completed and isRefreshing is false.
C16_Witness ==
    /\ ~isRefreshing
    /\ LeaderboardInFlight = 0
    /\ lbIssued["interval"] > 0

\* C17: at most one POST /upload request is in flight.  isUploading is true
\* exactly while a request is in flight; while it is true handleUpload is
\* not available, and a step that does not settle the request leaves it in
\* flight with its file, issues no request and leaves a file selected.
C17_OneUploadAtATime ==
    [][/\ Len(uploads') <= 1
       /\ isUploading' <=> (Len(uploads') = 1)
       /\ isUploading => ~ENABLED handleUpload
       /\ (isUploading /\ isUploading')
            => /\ uploads' = uploads
               /\ postCount' = postCount
               /\ file' # NoFile]_vars

\* C17 witness: during an upload another file was dropped and accepted; the
\* one request in flight still carries the file it was started with.
C17_Witness ==
    /\ isUploading
    /\ Len(uploads) = 1
    /\ file # NoFile
    /\ file # uploads[1]

====
